---- MODULE Spec2Model ----
(***************************************************************************)
(* Lease coordination over a conditional-write store (gdabdoub/lease).     *)
(*                                                                         *)
(* The Manager (LeaseManager) turns RenewLease / TakeLease / EvictLease /  *)
(* DeleteLease / CreateLease / ListLeases into DynamoDB calls.  Each call  *)
(* of the store is one atomic step.  A Manager operation is entered, then  *)
(* runs its retry loop one store call at a time, so that other callers     *)
(* interleave between its attempts, as they do while it sleeps; the        *)
(* Backoff.Reset and the return follow the last attempt in the same step.  *)
(***************************************************************************)
EXTENDS Integers, FiniteSets, Sequences, TLC

\* ------------------------------------------------------------------ bounds
MaxCounter == 3
MaxFaults == 1
MaxCalls == 3

\* ------------------------------------------------------- program constants
maxScanRetries == 3
maxUpdateRetries == 2
maxDeleteRetries == 2

\* The coordinator's configuration (expiry and renew_period, in clock ticks)
\* and the tokens one worker mints.
Expiry == 2
RenewPeriod == 1
MaxTokens == 2

Workers == {"w1", "w2"}
\* The keys of the table; the Manager's callers of Spec use the first, a
\* single caller and the crash hand-off the first two.
AllKeys == {"A", "B", "C", "D"}
Keys == {"A"}
Pair == {"A", "B"}
\* The callers of the Managers: one goroutine of each worker.
Procs == {<<"w1", "a">>, <<"w2", "a">>}
\* Every goroutine that calls a Manager: w1 has a second one, which shares
\* w1's Config with the first.
Goroutines == Procs \cup {<<"w1", "b">>}
WorkerId(p) == p[1]

NoOwner == ""
NullOwner == "NULL"

\* A caller-defined extra field: not set, or set to the value "v".
NoExtra == ""
Extras == {"v"}

VARIABLES
    store,      \* the lease table: key -> item
    attempt,    \* worker -> attempt counter of the Config's shared Backoff
    op,         \* caller -> the Manager operation it is executing
    lease,      \* caller -> the Lease value it passes by pointer
    faults,     \* transient store errors injected so far
    snap,       \* worker -> key -> the taker's last-observed lease
    held,       \* worker -> key -> the held lease and its concurrency token
    todo,       \* worker -> the candidates its taker pass still has to take
    minted,     \* worker -> concurrency tokens minted so far
    caller,     \* worker -> the lease its caller got from GetLeases
    alive,      \* worker -> it still runs its renewer and taker
    extrafields, \* goroutine -> the extra field set on its Lease value
    others      \* key -> the item's attribute that is not the Manager's

mvars == <<attempt, op, lease, faults>>
pvars == <<snap, held, todo, minted, caller, alive>>
xvars == <<extrafields, others>>
vars == <<store, attempt, op, lease, faults, snap, held, todo, minted, caller, alive,
          extrafields, others>>

\* ------------------------------------------------------------------ items
\* An absent item, and the item PutItem writes in CreateLease: the key only,
\* with neither a leaseOwner nor a leaseCounter attribute.
Absent == [exists |-> FALSE, attrs |-> FALSE, owner |-> NoOwner, counter |-> 0]
KeyOnly == [exists |-> TRUE, attrs |-> FALSE, owner |-> NoOwner, counter |-> 0]
Item(o, c) == [exists |-> TRUE, attrs |-> TRUE, owner |-> o, counter |-> c]

\* ----------------------------------------------------------------- leases
NoLease == [key |-> "-", owner |-> NoOwner, counter |-> 0]
NewLease(k) == [key |-> k, owner |-> NoOwner, counter |-> 0]
Lease(k, o, c) == [key |-> k, owner |-> o, counter |-> c]

hasNoOwner(l) == l.owner = NullOwner \/ l.owner = NoOwner

\* dynamodbattribute.UnmarshalMap into a new(Lease): a missing attribute
\* leaves the field at its zero value.
Unmarshal(k, item) == Lease(k, item.owner, item.counter)

\* -------------------------------------------------------------- the store
\* updateLease adds the counter check only to a lease whose counter is
\* positive, and the owner check only to a lease whose owner is non-empty.
\* (HasCounterCondAlways: the counter check added to every lease.)
HasCounterCondAlways(cond) == cond.counter >= 0
HasCounterCond(cond) == cond.counter > 0
HasOwnerCondNotNull(cond) == ~hasNoOwner(cond)
HasOwnerCond(cond) == cond.owner # NoOwner

\* The ConditionExpression of updateLease evaluated on an item.  A comparison
\* with an attribute the item does not have is false.
ConditionHolds(item, cond) ==
    /\ HasCounterCond(cond) => (item.attrs /\ item.counter = cond.counter)
    /\ HasOwnerCond(cond) => (item.attrs /\ item.owner = cond.owner)

\* UpdateItem "SET leaseOwner = :owner, leaseCounter = :count" (an upsert).
UpdateItem(upd) == Item(upd.owner, upd.counter)

\* DeleteLease's ConditionExpression:
\* attribute_not_exists(#key) OR :condCounter = #counter AND :condOwner = #owner
\* (DeleteConditionLeftToRight: the same with OR and AND read left to right.)
DeleteConditionLeftToRight(item, l) ==
    /\ ~item.exists \/ (item.attrs /\ item.counter = l.counter)
    /\ item.attrs /\ item.owner = l.owner

DeleteCondition(item, l) ==
    \/ ~item.exists
    \/ (item.attrs /\ item.counter = l.counter /\ item.owner = l.owner)

\* PutItem of CreateLease replaces the whole item by one holding the key only:
\* no attribute of the item it replaces, and no extra field of the lease.
PutItem == KeyOnly

\* ------------------------------------------------- the lease copies written
\* Counter is a Go int: Counter++ wraps from the largest value to the least.
\* The model keeps the type at the width that holds -MaxCounter-1..MaxCounter.
Inc(c) == IF c = MaxCounter THEN -MaxCounter - 1 ELSE c + 1

\* (RenewCopyKeep: a renewal that writes the counter back as it was.)
RenewCopyKeep(l) == l
RenewCopy(l) == [l EXCEPT !.counter = Inc(@)]
EvictCopy(l) == [l EXCEPT !.owner = NullOwner]
TakeCopy(l, w) == [l EXCEPT !.counter = Inc(@), !.owner = w]

\* clease: what the operation of this kind asks updateLease to write.
UpdateCopy(kind, l, w) ==
    CASE kind = "Renew" -> RenewCopy(l)
      [] kind = "Evict" -> EvictCopy(l)
      [] kind = "Take" -> TakeCopy(l, w)
      [] OTHER -> l

UpdateKinds == {"Renew", "Evict", "Take"}

\* ------------------------------------------------------------- operations
\* An operation in its retry loop: err is the named result (nil at entry),
\* calls counts the store calls it has made (up to MaxCalls).
IdleOp == [kind |-> "-", pc |-> "idle", err |-> "nil", calls |-> 0]
Enter(kind) == [kind |-> kind, pc |-> "loop", err |-> "nil", calls |-> 0]

Count(n) == IF n < MaxCalls THEN n + 1 ELSE n

\* One store call that failed with error e: Backoff.Duration() advances the
\* shared attempt counter, the caller sleeps and tests the loop again.
Failed(p, e) ==
    /\ op' = [op EXCEPT ![p].err = e, ![p].calls = Count(@)]
    /\ attempt' = [attempt EXCEPT ![WorkerId(p)] = @ + 1]

\* A transient error of the store (network, throttling).
Transient(p) ==
    /\ faults < MaxFaults
    /\ faults' = faults + 1
    /\ Failed(p, "transient")

\* What a nil error leaves in the passed-in lease l.
Mutated(kind, l, w) ==
    CASE kind = "Renew" -> [l EXCEPT !.counter = RenewCopy(l).counter]
      [] kind = "Evict" -> [l EXCEPT !.owner = EvictCopy(l).owner]
      [] kind = "Take" -> [l EXCEPT !.counter = TakeCopy(l, w).counter,
                                    !.owner = TakeCopy(l, w).owner]
      [] OTHER -> l

\* l.Backoff.Reset() and the return of error e to the caller of p.
Return(p, e) ==
    /\ attempt' = [attempt EXCEPT ![WorkerId(p)] = 0]
    /\ op' = [op EXCEPT ![p] = IdleOp]
    /\ lease' = [lease EXCEPT ![p] =
                    IF e = "nil" THEN Mutated(op[p].kind, @, WorkerId(p))
                    ELSE @]

\* The taker's and the coordinator's state before Start.
NoEntry == [seen |-> FALSE, owner |-> NoOwner, counter |-> 0, age |-> 0]
NotHeld == [token |-> 0, counter |-> 0, age |-> 0]
NoCall == [key |-> "-", token |-> 0, res |-> "-"]

Idle ==
    /\ snap = [w \in Workers |-> [k \in AllKeys |-> NoEntry]]
    /\ held = [w \in Workers |-> [k \in AllKeys |-> NotHeld]]
    /\ todo = [w \in Workers |-> {}]
    /\ minted = [w \in Workers |-> 0]
    /\ caller = [w \in Workers |-> NoCall]
    /\ alive = [w \in Workers |-> TRUE]
    /\ extrafields = [p \in Goroutines |-> NoExtra]
    /\ others = [k \in AllKeys |-> NoExtra]

Init ==
    /\ store = [k \in AllKeys |-> Absent]
    /\ attempt = [w \in Workers |-> 0]
    /\ op = [p \in Goroutines |-> IdleOp]
    /\ lease = [p \in Goroutines |-> NoLease]
    /\ faults = 0
    /\ Idle

\* A caller makes a Lease for key k (NewLease).
MakeLease(p, k) ==
    /\ op[p].pc = "idle"
    /\ UNCHANGED pvars
    /\ extrafields' = [extrafields EXCEPT ![p] = NoExtra]
    /\ UNCHANGED others
    /\ lease' = [lease EXCEPT ![p] = NewLease(k)]
    /\ UNCHANGED <<store, attempt, op, faults>>

RenewLease(p) ==
    /\ op[p].pc = "idle"
    /\ UNCHANGED pvars
    /\ UNCHANGED xvars
    /\ lease[p] # NoLease
    /\ lease[p].counter < MaxCounter
    /\ op' = [op EXCEPT ![p] = Enter("Renew")]
    /\ UNCHANGED <<store, attempt, lease, faults>>

EvictLease(p) ==
    /\ op[p].pc = "idle"
    /\ UNCHANGED pvars
    /\ UNCHANGED xvars
    /\ lease[p] # NoLease
    /\ op' = [op EXCEPT ![p] = Enter("Evict")]
    /\ UNCHANGED <<store, attempt, lease, faults>>

TakeLease(p) ==
    /\ op[p].pc = "idle"
    /\ UNCHANGED pvars
    /\ UNCHANGED xvars
    /\ lease[p] # NoLease
    /\ lease[p].counter < MaxCounter
    /\ op' = [op EXCEPT ![p] = Enter("Take")]
    /\ UNCHANGED <<store, attempt, lease, faults>>

\* One pass of updateLease's retry loop, condLease being the caller's lease.
updateLease(p) ==
    LET w == WorkerId(p)
        k == lease[p].key
        upd == UpdateCopy(op[p].kind, lease[p], w)
    IN
    /\ op[p].pc = "loop"
    /\ UNCHANGED pvars
    /\ UNCHANGED xvars
    /\ op[p].kind \in UpdateKinds
    /\ IF attempt[w] < maxUpdateRetries
       THEN \/ Transient(p) /\ UNCHANGED <<store, lease>>
            \/ /\ ConditionHolds(store[k], lease[p])
               /\ store' = [store EXCEPT ![k] = UpdateItem(upd)]
               /\ Return(p, "nil")
               /\ UNCHANGED faults
            \/ /\ ~ConditionHolds(store[k], lease[p])
               /\ Failed(p, "cond")
               /\ UNCHANGED <<store, lease, faults>>
       ELSE /\ Return(p, op[p].err)
            /\ UNCHANGED <<store, faults>>

DeleteLease(p) ==
    /\ op[p].pc = "idle"
    /\ UNCHANGED pvars
    /\ UNCHANGED xvars
    /\ lease[p] # NoLease
    /\ op' = [op EXCEPT ![p] = Enter("Delete")]
    /\ UNCHANGED <<store, attempt, lease, faults>>

\* One pass of DeleteLease's retry loop.
DeleteItem(p) ==
    LET w == WorkerId(p)
        k == lease[p].key
    IN
    /\ op[p].pc = "loop"
    /\ UNCHANGED pvars
    /\ UNCHANGED extrafields
    /\ op[p].kind = "Delete"
    /\ IF attempt[w] < maxDeleteRetries
       THEN \/ Transient(p) /\ UNCHANGED <<store, lease, others>>
            \/ /\ DeleteCondition(store[k], lease[p])
               /\ store' = [store EXCEPT ![k] = Absent]
               /\ others' = [others EXCEPT ![k] = NoExtra]
               /\ Return(p, "nil")
               /\ UNCHANGED faults
            \/ /\ ~DeleteCondition(store[k], lease[p])
               /\ Failed(p, "cond")
               /\ UNCHANGED <<store, lease, faults, others>>
       ELSE /\ Return(p, op[p].err)
            /\ UNCHANGED <<store, faults, others>>

ListLeases(p) ==
    /\ op[p].pc = "idle"
    /\ UNCHANGED pvars
    /\ UNCHANGED xvars
    /\ op' = [op EXCEPT ![p] = Enter("List")]
    /\ UNCHANGED <<store, attempt, lease, faults>>

\* One pass of ListLeases' retry loop.  Of the leases returned the caller
\* keeps one; an empty list leaves it the lease it had.
Scan(p) ==
    LET w == WorkerId(p)
        items == {k \in AllKeys : store[k].exists}
    IN
    /\ op[p].pc = "loop"
    /\ UNCHANGED pvars
    /\ UNCHANGED others
    /\ op[p].kind = "List"
    /\ UNCHANGED store
    /\ IF attempt[w] < maxScanRetries
       THEN \/ Transient(p) /\ UNCHANGED <<lease, extrafields>>
            \/ /\ \E l \in IF items = {} THEN {lease[p]}
                           ELSE {Unmarshal(k, store[k]) : k \in items} :
                      lease' = [lease EXCEPT ![p] = l]
               /\ extrafields' = [extrafields EXCEPT ![p] =
                      IF items = {} THEN @ ELSE NoExtra]
               /\ attempt' = [attempt EXCEPT ![w] = 0]
               /\ op' = [op EXCEPT ![p] = IdleOp]
               /\ UNCHANGED faults
       ELSE /\ Return(p, op[p].err)
            /\ UNCHANGED <<faults, extrafields>>

\* CreateLease: one PutItem, with no retry loop and no Backoff.
CreateLease(p) ==
    /\ op[p].pc = "idle"
    /\ UNCHANGED pvars
    /\ UNCHANGED xvars
    /\ lease[p] # NoLease
    /\ op' = [op EXCEPT ![p] = Enter("Create")]
    /\ UNCHANGED <<store, attempt, lease, faults>>

\* The PutItem call of CreateLease and its return.
PutLease(p) ==
    LET k == lease[p].key IN
    /\ op[p].pc = "loop"
    /\ UNCHANGED pvars
    /\ UNCHANGED extrafields
    /\ op[p].kind = "Create"
    /\ op' = [op EXCEPT ![p] = IdleOp]
    /\ UNCHANGED <<attempt, lease>>
    /\ \/ /\ store' = [store EXCEPT ![k] = PutItem]
          /\ others' = [others EXCEPT ![k] = NoExtra]
          /\ UNCHANGED faults
       \/ /\ faults < MaxFaults
          /\ faults' = faults + 1
          /\ UNCHANGED <<store, others>>

Next ==
    \E p \in Procs :
        \/ \E k \in Keys : MakeLease(p, k)
        \/ CreateLease(p)
        \/ PutLease(p)
        \/ ListLeases(p)
        \/ Scan(p)
        \/ RenewLease(p)
        \/ TakeLease(p)
        \/ EvictLease(p)
        \/ updateLease(p)
        \/ DeleteLease(p)
        \/ DeleteItem(p)

Spec == Init /\ [][Next]_vars

\* A single worker with a single caller, and no other writer, over the
\* whole table.
Solo == <<"w1", "a">>

SoloNext ==
    \/ \E k \in Pair : MakeLease(Solo, k)
    \/ CreateLease(Solo)
    \/ PutLease(Solo)
    \/ ListLeases(Solo)
    \/ Scan(Solo)
    \/ RenewLease(Solo)
    \/ TakeLease(Solo)
    \/ EvictLease(Solo)
    \/ updateLease(Solo)
    \/ DeleteLease(Solo)
    \/ DeleteItem(Solo)

SpecSolo == Init /\ [][SoloNext]_vars

\* Lease.Set: the caller sets an extra field on its Lease value.
Set(p) ==
    /\ op[p].pc = "idle"
    /\ lease[p] # NoLease
    /\ \E v \in Extras : extrafields' = [extrafields EXCEPT ![p] = v]
    /\ UNCHANGED <<store, attempt, op, lease, faults, others>>
    /\ UNCHANGED pvars

\* A record of the table is given an attribute that is not the Manager's,
\* by a client other than the Manager.
Annotate(k) ==
    /\ store[k].exists
    /\ \E v \in Extras : others' = [others EXCEPT ![k] = v]
    /\ UNCHANGED <<store, attempt, op, lease, faults, extrafields>>
    /\ UNCHANGED pvars

\* The single caller with extra fields on its leases and in the table.
ExtrasNext ==
    \/ SoloNext
    \/ Set(Solo)
    \/ \E k \in Pair : Annotate(k)

SpecExtras == Init /\ [][ExtrasNext]_vars

\* The cap of the retry loop of each kind of operation.
Cap(kind) ==
    CASE kind \in UpdateKinds -> maxUpdateRetries
      [] kind = "Delete" -> maxDeleteRetries
      [] kind = "List" -> maxScanRetries
      [] OTHER -> 1

\* One pass of a retry loop while the store is down: the call fails with a
\* transient error, however many have failed before.
StoreDown(p) ==
    /\ op[p].pc = "loop"
    /\ UNCHANGED pvars
    /\ UNCHANGED xvars
    /\ op[p].kind \in UpdateKinds \cup {"Delete", "List"}
    /\ attempt[WorkerId(p)] < Cap(op[p].kind)
    /\ Failed(p, "transient")
    /\ UNCHANGED <<store, lease, faults>>

\* Two goroutines of one worker calling the same Manager, so sharing the
\* attempt counter of the Config's Backoff: Caller renews, evicts and deletes
\* the leases it makes, Taker lists and takes.
Caller == <<"w1", "a">>
Taker == <<"w1", "b">>
Shared == {Caller, Taker}

SharedNext ==
    \/ \E k \in Keys : MakeLease(Caller, k)
    \/ RenewLease(Caller)
    \/ EvictLease(Caller)
    \/ DeleteLease(Caller)
    \/ DeleteItem(Caller)
    \/ ListLeases(Taker)
    \/ Scan(Taker)
    \/ TakeLease(Taker)
    \/ \E p \in Shared : updateLease(p)
    \/ \E p \in Shared : StoreDown(p)

SpecShared == Init /\ [][SharedNext]_vars

\* ------------------------------------------ taker, renewer and coordinator
\* Each step below is one decision of a worker together with the Manager
\* operation it calls, the store answering at once.  Time is the age of each
\* local lease: the clock ticks since its last_renewal, kept up to Expiry + 1.
mstill == UNCHANGED <<attempt, op, lease, faults, extrafields, others>>

\* isExpired: time.Since(lastRenewal) > expiry.
isExpired(age) == age > Expiry

Older(age) == IF isExpired(age) THEN age ELSE age + 1

\* The taker's classification of a snapshot entry.
Expired(e) == hasNoOwner(e) \/ isExpired(e.age)

\* The lease is held by w: in its held set and renewed within the window.
Holds(w, k) == held[w][k].token > 0 /\ ~isExpired(held[w][k].age)

Ceil(a, b) == (a + b - 1) \div b
Least(a, b) == IF a < b THEN a ELSE b

\* The snapshot after a list: the age of a lease whose counter has not
\* advanced is kept, any other listed lease is stamped now, an absent one
\* is dropped.
Refreshed(w) ==
    [k \in AllKeys |->
        IF store[k].exists
        THEN LET l == Unmarshal(k, store[k])
                 old == snap[w][k]
             IN  [seen |-> TRUE, owner |-> l.owner, counter |-> l.counter,
                  age |-> IF old.seen /\ old.counter = l.counter
                          THEN old.age ELSE 0]
        ELSE NoEntry]

\* The candidates of a pass: the expired leases this worker does not own.
Candidates(w, ns) ==
    {k \in AllKeys : ns[k].seen /\ Expired(ns[k]) /\ ns[k].owner # w}

\* ceil(total leases / (distinct non-null owners + 1)).
Target(ns) ==
    LET listed == {k \in AllKeys : ns[k].seen}
        owners == {ns[k].owner : k \in {j \in listed : ~hasNoOwner(ns[j])}}
    IN  Ceil(Cardinality(listed), Cardinality(owners) + 1)

\* How many candidates the pass takes.
ToTake(w, ns) ==
    LET mine == Cardinality({k \in AllKeys : Holds(w, k)})
    IN  IF mine >= Target(ns) THEN 0
        ELSE Least(Target(ns) - mine, Cardinality(Candidates(w, ns)))

ProtoInit ==
    /\ store = [k \in AllKeys |-> IF k \in Keys THEN KeyOnly ELSE Absent]
    /\ attempt = [w \in Workers |-> 0]
    /\ op = [p \in Goroutines |-> IdleOp]
    /\ lease = [p \in Goroutines |-> NoLease]
    /\ faults = 0
    /\ Idle

\* One tick of the clock.
Tick ==
    /\ snap' = [w \in Workers |-> [k \in AllKeys |->
                  IF snap[w][k].seen
                  THEN [snap[w][k] EXCEPT !.age = Older(@)] ELSE snap[w][k]]]
    /\ held' = [w \in Workers |-> [k \in AllKeys |->
                  IF held[w][k].token > 0
                  THEN [held[w][k] EXCEPT !.age = Older(@)] ELSE held[w][k]]]
    /\ UNCHANGED <<store, todo, minted, caller, alive>>
    /\ mstill

\* The start of a taker pass: list, refresh the snapshot, choose whom to
\* take from (at random among the candidates).
TakerPass(w) ==
    LET ns == Refreshed(w) IN
    /\ alive[w]
    /\ todo[w] = {}
    /\ snap' = [snap EXCEPT ![w] = ns]
    /\ \E T \in SUBSET Candidates(w, ns) :
          /\ Cardinality(T) = ToTake(w, ns)
          /\ todo' = [todo EXCEPT ![w] = T]
    /\ UNCHANGED <<store, held, minted, caller, alive>>
    /\ mstill

\* The taker calls TakeLease on a chosen candidate; on success the lease is
\* promoted to held under a fresh concurrency token.
TakerTake(w, k) ==
    LET l == Lease(k, snap[w][k].owner, snap[w][k].counter)
        t == TakeCopy(l, w)
    IN
    /\ alive[w]
    /\ k \in todo[w]
    /\ todo' = [todo EXCEPT ![w] = @ \ {k}]
    /\ \/ /\ ConditionHolds(store[k], l)
          /\ minted[w] < MaxTokens
          /\ store' = [store EXCEPT ![k] = UpdateItem(t)]
          /\ minted' = [minted EXCEPT ![w] = @ + 1]
          /\ held' = [held EXCEPT ![w][k] =
                [token |-> minted[w] + 1, counter |-> t.counter, age |-> 0]]
          /\ snap' = [snap EXCEPT ![w][k] =
                [seen |-> TRUE, owner |-> t.owner, counter |-> t.counter,
                 age |-> 0]]
       \/ /\ ~ConditionHolds(store[k], l)
          /\ UNCHANGED <<store, minted, held, snap>>
    /\ UNCHANGED <<caller, alive>>
    /\ mstill

\* The renewer calls RenewLease on a held lease, a renew period after its
\* last renewal; a conditional-check failure marks the lease lost.
Renewer(w, k) ==
    LET l == Lease(k, w, held[w][k].counter)
        r == RenewCopy(l)
    IN
    /\ alive[w]
    /\ held[w][k].token > 0
    /\ held[w][k].age >= RenewPeriod
    /\ \/ /\ ConditionHolds(store[k], l)
          /\ store' = [store EXCEPT ![k] = UpdateItem(r)]
          /\ held' = [held EXCEPT ![w][k].counter = r.counter,
                                  ![w][k].age = 0]
       \/ /\ ~ConditionHolds(store[k], l)
          /\ held' = [held EXCEPT ![w][k] = NotHeld]
          /\ UNCHANGED store
    /\ UNCHANGED <<snap, todo, minted, caller, alive>>
    /\ mstill

\* GetLeases: the caller keeps one held lease, stamped with its token.
GetLeases(w) ==
    /\ alive[w]
    /\ \E k \in AllKeys :
          /\ held[w][k].token > 0
          /\ caller' = [caller EXCEPT ![w] =
                [key |-> k, token |-> held[w][k].token, res |-> "-"]]
    /\ UNCHANGED <<store, snap, held, todo, minted, alive>>
    /\ mstill

\* Update checking the held set alone, whatever the caller's token.
UpdateCheckHeldOnly(h, L) ==
    IF h.token = 0 THEN "LeaseNotHeld" ELSE ""

\* The error Update answers before it writes, "" when it goes on to write.
UpdateCheck(h, L) ==
    IF h.token = 0 THEN "LeaseNotHeld"
    ELSE IF h.token # L.token THEN "TokenNotMatch"
    ELSE ""

\* Update(L) with the lease the caller got from GetLeases.
Update(w) ==
    LET L == caller[w]
        h == held[w][L.key]
        l == Lease(L.key, w, h.counter)
        r == RenewCopy(l)
    IN
    /\ L.key \in AllKeys
    /\ alive[w]
    /\ L.res = "-"
    /\ IF UpdateCheck(h, L) # ""
       THEN /\ caller' = [caller EXCEPT ![w].res = UpdateCheck(h, L)]
            /\ UNCHANGED <<store, held>>
       ELSE \/ /\ ConditionHolds(store[L.key], l)
               /\ store' = [store EXCEPT ![L.key] = UpdateItem(r)]
               /\ held' = [held EXCEPT ![w][L.key].counter = r.counter,
                                       ![w][L.key].age = 0]
               /\ caller' = [caller EXCEPT ![w].res = "ok"]
            \/ /\ ~ConditionHolds(store[L.key], l)
               /\ held' = [held EXCEPT ![w][L.key] = NotHeld]
               /\ caller' = [caller EXCEPT ![w].res = "TokenNotMatch"]
               /\ UNCHANGED store
    /\ UNCHANGED <<snap, todo, minted, alive>>
    /\ mstill

\* The counters a step would advance are below MaxCounter.
Below(w, k) ==
    /\ snap[w][k].counter < MaxCounter
    /\ held[w][k].counter < MaxCounter

ProtoNext ==
    \/ Tick
    \/ \E w \in Workers :
          \/ TakerPass(w)
          \/ \E k \in AllKeys : Below(w, k) /\ TakerTake(w, k)
          \/ \E k \in AllKeys : Below(w, k) /\ Renewer(w, k)
          \/ GetLeases(w)
          \/ \E k \in {caller[w].key} \cap AllKeys : Below(w, k) /\ Update(w)

\* Two workers over one pre-seeded lease, with their callers.
SpecProto == ProtoInit /\ [][ProtoNext]_vars

\* The worker that has stopped and the lease it held when it did.
Stopped == "w1"
Orphan == "A"

\* Stopped took Orphan at counter 1 and stopped renewing; the other lease
\* is freshly created; the other workers have yet to list.
CrashInit ==
    /\ store = [k \in AllKeys |->
                  IF k = Orphan THEN Item(Stopped, 1)
                  ELSE IF k \in Pair THEN KeyOnly ELSE Absent]
    /\ attempt = [w \in Workers |-> 0]
    /\ op = [p \in Goroutines |-> IdleOp]
    /\ lease = [p \in Goroutines |-> NoLease]
    /\ faults = 0
    /\ snap = [w \in Workers |-> [k \in AllKeys |->
                  IF w = Stopped /\ k = Orphan
                  THEN [seen |-> TRUE, owner |-> Stopped, counter |-> 1,
                        age |-> 0]
                  ELSE NoEntry]]
    /\ held = [w \in Workers |-> [k \in AllKeys |->
                  IF w = Stopped /\ k = Orphan
                  THEN [token |-> 1, counter |-> 1, age |-> 0]
                  ELSE NotHeld]]
    /\ todo = [w \in Workers |-> {}]
    /\ minted = [w \in Workers |-> IF w = Stopped THEN 1 ELSE 0]
    /\ caller = [w \in Workers |-> NoCall]
    /\ alive = [w \in Workers |-> w # Stopped]
    /\ extrafields = [p \in Goroutines |-> NoExtra]
    /\ others = [k \in AllKeys |-> NoExtra]

CrashNext ==
    \/ Tick
    \/ \E w \in Workers :
          \/ TakerPass(w)
          \/ \E k \in AllKeys : TakerTake(w, k)
          \/ \E k \in AllKeys : Renewer(w, k)

\* The clock advances and both loops of every running worker keep running.
Fairness ==
    /\ WF_vars(Tick)
    /\ \A w \in Workers :
          /\ WF_vars(TakerPass(w))
          /\ \A k \in AllKeys : WF_vars(TakerTake(w, k))
          /\ \A k \in AllKeys : WF_vars(Renewer(w, k))

\* After a holder stopped: the surviving worker over two leases, for ever.
SpecCrash == CrashInit /\ [][CrashNext]_vars /\ Fairness

\* The order in which a pass goes through the keys, and the tokens one
\* worker mints while the fleet balances.
KeyNo == [k \in AllKeys |->
            CASE k = "A" -> 1 [] k = "B" -> 2 [] k = "C" -> 3 [] OTHER -> 4]
Rank(k, T) == Cardinality({j \in T : KeyNo[j] <= KeyNo[k]})
MaxEpisodes == 4

\* A whole taker pass: list, refresh, choose, and TakeLease on every chosen
\* candidate, each success promoted to held under a fresh token.
TakerRound(w) ==
    LET ns == Refreshed(w)
        cond(k) == Lease(k, ns[k].owner, ns[k].counter)
        took(k) == TakeCopy(cond(k), w)
    IN
    /\ alive[w]
    /\ \E T \in SUBSET Candidates(w, ns) :
          LET won == {k \in T : ConditionHolds(store[k], cond(k))} IN
          /\ Cardinality(T) = ToTake(w, ns)
          /\ minted[w] + Cardinality(T) <= MaxEpisodes
          /\ store' = [k \in AllKeys |->
                IF k \in won THEN UpdateItem(took(k)) ELSE store[k]]
          /\ held' = [held EXCEPT ![w] = [k \in AllKeys |->
                IF k \in won
                THEN [token |-> minted[w] + Rank(k, won),
                      counter |-> took(k).counter, age |-> 0]
                ELSE held[w][k]]]
          /\ snap' = [snap EXCEPT ![w] = [k \in AllKeys |->
                IF k \in won
                THEN [seen |-> TRUE, owner |-> w, counter |-> took(k).counter,
                      age |-> 0]
                ELSE ns[k]]]
          /\ minted' = [minted EXCEPT ![w] = @ + Cardinality(won)]
    /\ UNCHANGED <<todo, caller, alive>>
    /\ mstill

\* Scenario S2: four pre-seeded leases without an owner, two workers.
BalanceInit ==
    /\ store = [k \in AllKeys |-> KeyOnly]
    /\ attempt = [w \in Workers |-> 0]
    /\ op = [p \in Goroutines |-> IdleOp]
    /\ lease = [p \in Goroutines |-> NoLease]
    /\ faults = 0
    /\ Idle

\* Both loops keep their cadence: the clock does not advance past a renewal
\* that a running worker owes, nor past a taker pass that has yet to see
\* what the store holds.
TimelyTick ==
    /\ \A w \in Workers : \A k \in AllKeys :
          (alive[w] /\ held[w][k].token > 0) => held[w][k].age < RenewPeriod
    /\ \A w \in Workers : alive[w] => snap[w] = Refreshed(w)
    /\ Tick

BalanceNext ==
    \/ TimelyTick
    \/ \E w \in Workers : TakerRound(w)
    \/ \E w \in Workers : \E k \in AllKeys : Renewer(w, k)

BalanceFairness ==
    /\ WF_vars(TimelyTick)
    /\ \A w \in Workers :
          /\ WF_vars(TakerRound(w))
          /\ \A k \in AllKeys : WF_vars(Renewer(w, k))

SpecBalance == BalanceInit /\ [][BalanceNext]_vars /\ BalanceFairness

\* ------------------------------------------------------------- properties
\* The store call p makes in this step is answered by the store (it is not a
\* transient error) and p's operation is one of kinds.
Answered(p, kinds, cap) ==
    /\ op[p].pc = "loop"
    /\ op[p].kind \in kinds
    /\ attempt[WorkerId(p)] < cap
    /\ op'[p] # op[p]
    /\ faults' = faults

\* p's store call in this step is rejected: a conditional-check failure,
\* and neither the store nor the passed-in lease changes.
Rejected(p) ==
    /\ op'[p].pc = "loop"
    /\ op'[p].err = "cond"
    /\ store' = store
    /\ lease' = lease

\* C2: for every key the stored leaseCounter never decreases, whatever
\* lease copy a CreateLease, RenewLease, TakeLease or EvictLease is given.
CounterNeverDecreases ==
    [][\A k \in Keys :
          (store[k].attrs /\ store'[k].attrs)
              => store'[k].counter >= store[k].counter]_vars

\* C3: a RenewLease or TakeLease whose lease copy has a counter other than
\* the stored one gets a conditional-check failure and changes neither the
\* stored record nor the passed-in lease.
StaleCounterRejected ==
    [][\A p \in Procs :
          (/\ Answered(p, {"Renew", "Take"}, maxUpdateRetries)
           /\ store[lease[p].key].attrs
           /\ store[lease[p].key].counter # lease[p].counter)
              => Rejected(p)]_vars

\* C4: CreateLease on a key already in the store succeeds and leaves the
\* record's owner and counter as they were.
CreateKeepsRecord ==
    [][\A p \in Procs :
          (/\ Answered(p, {"Create"}, 1)
           /\ store[lease[p].key].exists)
              => store'[lease[p].key] = store[lease[p].key]]_vars

\* C5: a conditional-check failure is never retried: the operation whose
\* store call was rejected makes no further store call and returns.
CondFailureNotRetried ==
    [][\A p \in Procs :
          (/\ op[p].pc = "loop"
           /\ op[p].kind \in UpdateKinds \cup {"Delete"}
           /\ op[p].err = "cond"
           /\ op'[p] # op[p])
              => (op'[p].pc = "idle" /\ store' = store /\ faults' = faults)]_vars

FreshLeaseTaken ==
    [][\A p \in Procs :
          (/\ Answered(p, {"Take"}, maxUpdateRetries)
           /\ store[lease[p].key] = KeyOnly
           /\ lease[p] = NewLease(lease[p].key))
              => /\ op'[p].pc = "idle"
                 /\ store'[lease[p].key] = Item(WorkerId(p), 1)
                 /\ lease'[p] = Lease(lease[p].key, WorkerId(p), 1)]_vars

\* A take of a fresh lease is about to be answered by the store.
FreshTakeWitness ==
    \E p \in Procs :
        /\ op[p].pc = "loop"
        /\ op[p].kind = "Take"
        /\ op[p].calls = 0
        /\ attempt[WorkerId(p)] = 0
        /\ store[lease[p].key] = KeyOnly
        /\ lease[p] = NewLease(lease[p].key)

\* C10: every successful EvictLease sets the stored owner to "NULL" and
\* leaves the stored counter as it was just before the call.
EvictKeepsCounter ==
    [][\A p \in Procs :
          (/\ Answered(p, {"Evict"}, maxUpdateRetries)
           /\ store[lease[p].key].attrs
           /\ op'[p].pc = "idle")
              => /\ store'[lease[p].key].owner = NullOwner
                 /\ store'[lease[p].key].counter
                        = store[lease[p].key].counter]_vars


\* C1: for every key at most one worker's local state classifies the lease
\* as held (in its held set and renewed within the expiry window), leases
\* that start freshly created and are listed by several workers included.
MutualExclusion ==
    \A k \in AllKeys : Cardinality({w \in Workers : Holds(w, k)}) <= 1

\* C6: when the holder of a lease has stopped renewing and another worker
\* keeps running its taker, eventually another worker takes the lease: the
\* store records it as owner with the previous counter plus one, whatever
\* number of leases that worker already holds.
CrashHandoff ==
    (~alive[Stopped] /\ store[Orphan] = Item(Stopped, 1))
        ~> (\E w \in Workers \ {Stopped} : store[Orphan] = Item(w, Inc(1)))

\* The step in which Update answers worker w's caller.
Answers(w) == caller[w].res = "-" /\ caller'[w].res # "-"

\* C7: Update(L) answers LeaseNotHeld when L.key is not in the worker's held
\* set, TokenNotMatch when the held lease's token differs from L's (the lease
\* was lost and re-acquired after the caller's snapshot), in both cases
\* without a store write; it writes only when the token matches.
UpdateOnlyCurrentEpisode ==
    [][\A w \in Workers : Answers(w) =>
          LET L == caller[w]
              h == held[w][L.key]
          IN  /\ h.token = 0 =>
                    caller'[w].res = "LeaseNotHeld" /\ store' = store
              /\ (h.token > 0 /\ h.token # L.token) =>
                    caller'[w].res = "TokenNotMatch" /\ store' = store
              /\ store' # store => (h.token > 0 /\ h.token = L.token)]_vars

\* Update has answered TokenNotMatch on a lease the worker lost and holds
\* again under a later token.
RegainedWitness ==
    \E w \in Workers :
        /\ caller[w].res = "TokenNotMatch"
        /\ held[w][caller[w].key].token > caller[w].token


\* C11: with a single worker and no other writer, a RenewLease of a held
\* lease as ListLeases returned it advances the stored counter by exactly 1,
\* leaves the passed-in lease at the same new counter and changes no other
\* lease; every successful renewal leaves the passed-in lease with a greater
\* counter than it had.
RenewAdvancesByOne ==
    [][Answered(Solo, {"Renew"}, maxUpdateRetries) =>
          LET w == WorkerId(Solo)
              k == lease[Solo].key
              c == lease[Solo].counter
          IN  /\ (store[k] = Item(w, c) /\ lease[Solo].owner = w) =>
                    /\ op'[Solo].pc = "idle"
                    /\ store'[k] = Item(w, c + 1)
                    /\ lease'[Solo] = Lease(k, w, c + 1)
                    /\ \A j \in AllKeys \ {k} : store'[j] = store[j]
              /\ op'[Solo].pc = "idle" => lease'[Solo].counter > c]_vars

\* The sole worker is about to renew, for the second time at least, a lease
\* it holds, with the copy the store has, another lease being in the table.
SoloRenewWitness ==
    LET k == lease[Solo].key IN
    /\ op[Solo].pc = "loop"
    /\ op[Solo].kind = "Renew"
    /\ attempt[WorkerId(Solo)] = 0
    /\ k \in AllKeys
    /\ lease[Solo].counter >= 2
    /\ lease[Solo].owner = WorkerId(Solo)
    /\ store[k] = Item(WorkerId(Solo), lease[Solo].counter)
    /\ \E j \in AllKeys \ {k} : store[j].exists


\* C12: every Manager operation makes at most its cap of store calls (2 for
\* RenewLease, TakeLease, EvictLease and DeleteLease, 3 for ListLeases),
\* also when other operations run concurrently on the same Manager and
\* share its backoff attempt counter.
BoundedRetry ==
    \A p \in Goroutines : op[p].calls <= Cap(op[p].kind)

\* C17: a RenewLease, TakeLease, EvictLease or DeleteLease returns nil (and
\* mutates the passed-in lease) only in the step in which a store call of
\* its own succeeds: an operation none of whose calls has failed does not
\* leave its retry loop without making a call.
NoSilentSuccess ==
    [][\A p \in Goroutines :
          (/\ op[p].pc = "loop"
           /\ op[p].kind \in UpdateKinds \cup {"Delete"}
           /\ op'[p].pc = "idle"
           /\ op[p].err = "nil")
              => attempt[WorkerId(p)] < Cap(op[p].kind)]_vars


\* C13: an extra field set on a Lease is written by CreateLease and is on the
\* Lease that ListLeases returns, and no RenewLease, TakeLease or EvictLease
\* removes an extra attribute from the stored record.
ExtrasRoundTrip ==
    [][/\ Answered(Solo, {"Create"}, 1)
            => others'[lease[Solo].key] = extrafields[Solo]
       /\ (Answered(Solo, {"List"}, maxScanRetries) /\ lease'[Solo] # lease[Solo])
            => extrafields'[Solo] = others[lease'[Solo].key]
       /\ Answered(Solo, UpdateKinds, maxUpdateRetries)
            => others' = others]_vars


\* Each worker holds exactly two leases and no lease is held by both.
Balanced ==
    /\ \A w \in Workers : Cardinality({k \in AllKeys : Holds(w, k)}) = 2
    /\ \A k \in AllKeys : Cardinality({w \in Workers : Holds(w, k)}) <= 1

\* C14: with two workers running and four pre-seeded unowned leases, every
\* fair execution reaches a state where each worker holds exactly 2 leases
\* and no lease is held by both.
BalanceConverges == <>Balanced

TakeRaceOneWinner ==
    [][\A p, q \in Procs :
          (/\ WorkerId(p) # WorkerId(q)
           /\ Answered(q, {"Take"}, maxUpdateRetries)
           /\ op[p].pc = "idle"
           /\ lease[p] = Lease(lease[q].key, WorkerId(p), lease[q].counter + 1)
           /\ store[lease[q].key] = Item(WorkerId(p), lease[q].counter + 1))
              => Rejected(q)]_vars

\* C18: a successful RenewLease changes only the counter: the stored owner
\* after the call is the stored owner before the call, for every lease copy
\* that passes the precondition, copies with an empty owner included.
RenewKeepsOwner ==
    [][\A p \in Procs :
          (/\ Answered(p, {"Renew"}, maxUpdateRetries)
           /\ op'[p].pc = "idle"
           /\ store[lease[p].key].attrs)
              => store'[lease[p].key].owner = store[lease[p].key].owner]_vars

\* C19: once the record for key K is absent from the store, no RenewLease,
\* TakeLease or EvictLease call creates a record for K, whatever lease copy
\* of K it is given: only the store call of a CreateLease makes an absent
\* record present.
OnlyCreateMakesPresent ==
    [][\A k \in AllKeys :
          (~store[k].exists /\ store'[k].exists)
              => \E p \in Procs : /\ op[p].pc = "loop"
                                  /\ op[p].kind = "Create"
                                  /\ lease[p].key = k
                                  /\ op'[p].pc = "idle"]_vars

====
